---- MODULE Spec2Model ----
(***************************************************************************)
(* A model of the two converters of prov2ld:                               *)
(*   src/src/prov2ld.py  ProvJsonToJsonldConverter (PROV-JSON -> JSON-LD)   *)
(*   src/src/ld2viz.py   ProvJsonldToGraphviz      (JSON-LD  -> DOT)        *)
(*                                                                         *)
(* Encoding of the Python values.                                          *)
(*  - str: a TLA+ string; characters are reached with SubSeq/Len.          *)
(*  - dict: a sequence of <<key, value>> pairs with pairwise distinct keys, *)
(*    in insertion order (Python dicts iterate in insertion order).        *)
(*  - a JSON value held under a key of an item: a record                   *)
(*      [t, s, l, o, c, g]                                                 *)
(*    t = "str" (text s), "num" (a scalar that is no str: s is the text     *)
(*    Python's str() gives for it, "5", "True", "None"),                   *)
(*    "list" (elements l), "obj" (a dict o of strings), "ctx" (an          *)
(*    @context list c), "graph" (an @graph list g), "none" (Python None).  *)
(*  - an element of a list value: a record [t, s, o], t in str/num/obj.    *)
(*  - an element of an @context list: [t, s, d], t = "str" (an IRI) or     *)
(*    "dict" (a prefix map d whose values are JSON values).                *)
(* Identifiers, @type values and relation endpoints are strings, as both   *)
(* converters' string methods (startswith, replace, split) require.        *)
(***************************************************************************)
EXTENDS Integers, Sequences, FiniteSets, TLC

VARIABLES
  show_attributes, \* ProvJsonldToGraphviz.show_attributes
  direction,       \* ProvJsonldToGraphviz.direction
  nodes,           \* ProvJsonldToGraphviz.nodes
  edges,           \* ProvJsonldToGraphviz.edges
  namespaces,      \* ProvJsonldToGraphviz.namespaces
  vizIn,           \* the argument of the last ProvJsonldToGraphviz.convert call
  vizOut,          \* its return value (the DOT text)
  vizPrev,         \* nodes and edges as they were when that call started
  calls,           \* number of convert calls made on the ProvJsonldToGraphviz
  ldNamespaces,    \* ProvJsonToJsonldConverter.namespaces
  ldIn,            \* the argument of the last ProvJsonToJsonldConverter.convert call
  ldOut,           \* its return value (the PROV-JSONLD document)
  ldCalls,         \* number of convert calls made on the ProvJsonToJsonldConverter
  op,              \* the method applied last by a single-method specification
  arg,             \* its argument
  ret              \* its successive return values

vars == <<show_attributes, direction, nodes, edges, namespaces, vizIn, vizOut,
          vizPrev, calls, ldNamespaces, ldIn, ldOut, ldCalls, op, arg, ret>>

vizVars == <<show_attributes, direction, nodes, edges, namespaces, vizIn,
             vizOut, vizPrev, calls>>

ldVars == <<ldNamespaces, ldIn, ldOut, ldCalls>>

fnVars == <<op, arg, ret>>

(***************************************************************************)
(* Python values                                                           *)
(***************************************************************************)
None == [t |-> "none", s |-> "", l |-> <<>>, o |-> <<>>, c |-> <<>>, g |-> <<>>]

Str(x) == [t |-> "str", s |-> x, l |-> <<>>, o |-> <<>>, c |-> <<>>, g |-> <<>>]

Num(x) == [t |-> "num", s |-> x, l |-> <<>>, o |-> <<>>, c |-> <<>>, g |-> <<>>]

List(x) == [t |-> "list", s |-> "", l |-> x, o |-> <<>>, c |-> <<>>, g |-> <<>>]

Obj(x) == [t |-> "obj", s |-> "", l |-> <<>>, o |-> x, c |-> <<>>, g |-> <<>>]

Ctx(x) == [t |-> "ctx", s |-> "", l |-> <<>>, o |-> <<>>, c |-> x, g |-> <<>>]

Graph(x) == [t |-> "graph", s |-> "", l |-> <<>>, o |-> <<>>, c |-> <<>>, g |-> x]

EStr(x) == [t |-> "str", s |-> x, o |-> <<>>]

ENum(x) == [t |-> "num", s |-> x, o |-> <<>>]

EObj(x) == [t |-> "obj", s |-> "", o |-> x]

CIri(x) == [t |-> "str", s |-> x, d |-> <<>>]

CDict(x) == [t |-> "dict", s |-> "", d |-> x]

\* Python truthiness (bool(v)) of a JSON value.
Truthy(v) ==
  CASE v.t = "none" -> FALSE
    [] v.t = "str" -> v.s # ""
    [] v.t = "num" -> v.s # "0"
    [] v.t = "list" -> v.l # <<>>
    [] v.t = "obj" -> v.o # <<>>
    [] v.t = "ctx" -> v.c # <<>>
    [] v.t = "graph" -> v.g # <<>>

\* dict: key in d
Has(d, k) == \E i \in DOMAIN d : d[i][1] = k

\* dict: d[k]
Get(d, k) == d[CHOOSE i \in DOMAIN d : d[i][1] = k][2]

\* dict: d.get(k) with None for a missing key
GetOpt(d, k) == IF Has(d, k) THEN Get(d, k) ELSE None

\* dict: d[k] = v (an existing key keeps its place)
Put(d, k, v) ==
  IF Has(d, k)
    THEN [i \in DOMAIN d |-> IF d[i][1] = k THEN <<k, v>> ELSE d[i]]
    ELSE Append(d, <<k, v>>)

RECURSIVE Update(_, _)
\* dict: d.update(e)
Update(d, e) ==
  IF e = <<>> THEN d ELSE Update(Put(d, e[1][1], e[1][2]), Tail(e))

\* str: s[i] (1-based)
CharAt(s, i) == SubSeq(s, i, i)

\* str: s.startswith(p)
StartsWith(s, p) == Len(p) <= Len(s) /\ SubSeq(s, 1, Len(p)) = p

\* str: c in s, for a single character c
HasChar(s, c) == \E i \in 1..Len(s) : CharAt(s, i) = c

\* position of the first c in s (c occurs in s)
FirstAt(s, c) == CHOOSE i \in 1..Len(s) :
                   CharAt(s, i) = c /\ \A j \in 1..(i - 1) : CharAt(s, j) # c

\* str: s.split(c)[0]
BeforeFirst(s, c) == IF HasChar(s, c) THEN SubSeq(s, 1, FirstAt(s, c) - 1) ELSE s

\* str: s.split(c, 1)[1] (c occurs in s)
AfterFirst(s, c) == SubSeq(s, FirstAt(s, c) + 1, Len(s))

RECURSIVE Replace(_, _, _)
\* str: s.replace(c, r) for every character c of the set cs
Replace(s, cs, r) ==
  IF s = "" THEN ""
  ELSE (IF CharAt(s, 1) \in cs THEN r ELSE CharAt(s, 1))
         \o Replace(SubSeq(s, 2, Len(s)), cs, r)

RECURSIVE Join(_, _)
\* str: sep.join(parts)
Join(sep, parts) ==
  IF parts = <<>> THEN ""
  ELSE IF Len(parts) = 1 THEN parts[1]
  ELSE parts[1] \o sep \o Join(sep, Tail(parts))

Lower == {"a", "b", "c", "d", "e", "f", "g", "h", "i", "j", "k", "l", "m",
          "n", "o", "p", "q", "r", "s", "t", "u", "v", "w", "x", "y", "z"}

Upper == {"A", "B", "C", "D", "E", "F", "G", "H", "I", "J", "K", "L", "M",
          "N", "O", "P", "Q", "R", "S", "T", "U", "V", "W", "X", "Y", "Z"}

Digit == {"0", "1", "2", "3", "4", "5", "6", "7", "8", "9"}

\* the characters [A-Za-z0-9]
AsciiAlnum == Lower \cup Upper \cup Digit

\* str.isalnum() is defined on Unicode: letters and digits outside ASCII count too.
UnicodeAlnum == {"é", "ß"}

\* str: s.isalnum() (False for the empty string)
isalnum(s) ==
  /\ s # ""
  /\ \A i \in 1..Len(s) : CharAt(s, i) \in AsciiAlnum \cup UnicodeAlnum

(***************************************************************************)
(* ld2viz.py: ProvJsonldToGraphviz                                         *)
(***************************************************************************)
NODE_SHAPES ==
  << <<"prov:Entity", "ellipse">>, <<"prov:Activity", "box">>,
     <<"prov:Agent", "house">> >>

NODE_COLORS ==
  << <<"prov:Entity", "#FFFC87">>, <<"prov:Activity", "#9FB1FC">>,
     <<"prov:Agent", "#FDB266">> >>

\* One EDGE_STYLES entry; color and arrowhead are optional keys (<<>> when not set).
Style(label, style, dir, color, arrowhead) ==
  [label |-> label, style |-> style, dir |-> dir, color |-> color,
   arrowhead |-> arrowhead]

EDGE_STYLES ==
  << <<"prov:Generation", Style("wasGeneratedBy", "solid", "back", <<"#006400">>, <<>>)>>,
     <<"prov:Usage", Style("used", "solid", "forward", <<"#8b0101">>, <<>>)>>,
     <<"prov:Derivation", Style("wasDerivedFrom", "solid", "back", <<>>, <<>>)>>,
     <<"prov:Association", Style("wasAssociatedWith", "solid", "forward", <<"#fed37f">>, <<>>)>>,
     <<"prov:Attribution", Style("wasAttributedTo", "dashed", "back", <<>>, <<>>)>>,
     <<"prov:Communication", Style("wasInformedBy", "solid", "back", <<>>, <<>>)>>,
     <<"prov:Delegation", Style("actedOnBehalfOf", "dashed", "back", <<>>, <<>>)>>,
     <<"prov:Start", Style("wasStartedBy", "solid", "back", <<>>, <<>>)>>,
     <<"prov:End", Style("wasEndedBy", "solid", "back", <<>>, <<>>)>>,
     <<"prov:Invalidation", Style("wasInvalidatedBy", "solid", "back", <<>>, <<>>)>>,
     <<"prov:Influence", Style("wasInfluencedBy", "dotted", "back", <<>>, <<>>)>>,
     <<"provext:Specialization", Style("specializationOf", "solid", "back", <<>>, <<"onormal">>)>>,
     <<"provext:Alternate", Style("alternateOf", "dashed", "none", <<>>, <<>>)>>,
     <<"provext:Membership", Style("hadMember", "dotted", "forward", <<>>, <<>>)>> >>

REFERENCE_PROPERTIES ==
  {"entity", "activity", "agent", "generatedEntity", "usedEntity",
   "informed", "informant", "trigger", "starter", "ender",
   "delegate", "responsible", "plan", "influencee", "influencer",
   "specificEntity", "generalEntity", "alternate1", "alternate2",
   "collection", "generation", "usage"}

RECURSIVE _extract_namespaces(_, _)
\* self.namespaces after _extract_namespaces(context), from self.namespaces = ns
_extract_namespaces(ns, context) ==
  IF context = <<>> THEN ns
  ELSE _extract_namespaces(
         IF context[1].t = "dict" THEN Update(ns, context[1].d) ELSE ns,
         Tail(context))

\* the first (prefix, namespace) of ns, in dict order, whose namespace is a str
\* that uri starts with; 0 when there is none
FirstNamespace(ns, uri) ==
  LET hits == {i \in DOMAIN ns : ns[i][2].t = "str" /\ StartsWith(uri, ns[i][2].s)}
  IN  IF hits = {} THEN 0 ELSE CHOOSE i \in hits : \A j \in hits : i <= j

_shorten_uri(ns, uri) ==
  IF uri = "" \/ ~HasChar(uri, ":") THEN uri
  ELSE IF ~StartsWith(uri, "http://") /\ ~StartsWith(uri, "https://") THEN uri
  ELSE LET i == FirstNamespace(ns, uri)
       IN  IF i = 0 THEN uri
           ELSE ns[i][1] \o ":" \o SubSeq(uri, Len(ns[i][2].s) + 1, Len(uri))

\* OTHER_LABEL_PROPS with foaf:name tried before rdfs:label
LabelPropsReordered == <<"foaf:name", "rdfs:label", "dcterms:title", "name", "title">>

OTHER_LABEL_PROPS == <<"rdfs:label", "foaf:name", "dcterms:title", "name", "title">>

\* the for loop of _get_label over label_prop: <<TRUE, value>> when an iteration
\* returns, <<FALSE, "">> when the loop falls through
RECURSIVE OtherLabel(_, _)
OtherLabel(item, props) ==
  IF props = <<>> THEN <<FALSE, "">>
  ELSE LET values == GetOpt(item, props[1])
           first == values.l[1]
       IN  IF Has(item, props[1]) /\ values.t = "list" /\ Len(values.l) > 0
             THEN IF first.t = "obj" /\ Has(first.o, "@value")
                    THEN <<TRUE, Get(first.o, "@value")>>
                  ELSE IF first.t = "str" THEN <<TRUE, first.s>>
                  ELSE OtherLabel(item, Tail(props))
             ELSE OtherLabel(item, Tail(props))

_get_label(item) ==
  LET item_id == IF Has(item, "@id") THEN Get(item, "@id").s ELSE ""
      labels == GetOpt(item, "prov:label")
      other == OtherLabel(item, OTHER_LABEL_PROPS)
  IN  IF /\ Has(item, "prov:label")
         /\ labels.t = "list" /\ Len(labels.l) > 0
         /\ labels.l[1].t = "obj" /\ Has(labels.l[1].o, "@value")
        THEN Get(labels.l[1].o, "@value")
      ELSE IF other[1] THEN other[2]
      ELSE IF item_id # ""
        THEN IF HasChar(item_id, ":") THEN AfterFirst(item_id, ":") ELSE item_id
      ELSE "anonymous"

AttrValueMax == 30

AttrValueKeep == 27

MaxAttrValues == 3

MaxAttrLines == 5

\* val_str, cut to 27 characters and '...' when longer than 30
Truncate(val_str) ==
  IF Len(val_str) > AttrValueMax
    THEN SubSeq(val_str, 1, AttrValueKeep) \o "..."
    ELSE val_str

\* seq[:n]
Take(seq, n) == SubSeq(seq, 1, IF Len(seq) < n THEN Len(seq) ELSE n)

\* the lines one list value adds to attributes (the loop over value[:3])
RECURSIVE ValueLines(_, _)
ValueLines(short_key, elems) ==
  IF elems = <<>> THEN <<>>
  ELSE (IF elems[1].t = "obj"
          THEN IF Has(elems[1].o, "@value")
                 THEN <<short_key \o "=" \o Truncate(Get(elems[1].o, "@value"))>>
                 ELSE <<>>
        ELSE IF elems[1].t = "str"
          THEN <<short_key \o "=" \o Truncate(elems[1].s)>>
        ELSE <<>>)
       \o ValueLines(short_key, Tail(elems))

SKIP_PROPS ==
  {"@type", "@id", "@context", "@graph", "prov:label", "rdfs:label",
   "foaf:name", "dcterms:title"} \cup REFERENCE_PROPERTIES

\* _get_attributes_text over the (key, value) pairs of an item, in dict order
RECURSIVE _get_attributes_text(_, _)
_get_attributes_text(ns, item) ==
  IF item = <<>> THEN <<>>
  ELSE LET key == item[1][1]
           value == item[1][2]
           short_key == IF HasChar(key, ":") THEN _shorten_uri(ns, key) ELSE key
       IN  (IF key \in SKIP_PROPS THEN <<>>
            ELSE IF value.t = "list" /\ Len(value.l) > 0
              THEN ValueLines(short_key, Take(value.l, MaxAttrValues))
            ELSE IF value.t = "str"
              THEN <<short_key \o "=" \o Truncate(value.s)>>
            ELSE <<>>)
           \o _get_attributes_text(ns, Tail(item))

\* self.nodes after _process_node(item)
_process_node(nds, ns, show, item) ==
  LET item_type == Get(item, "@type").s
      item_id == IF Has(item, "@id") THEN Get(item, "@id").s
                 ELSE "anon_" \o ToString(Len(nds))
      attributes == _get_attributes_text(ns, item)
      label == IF show /\ attributes # <<>>
                 THEN _get_label(item) \o "\\n"
                        \o Join("\\n", Take(attributes, MaxAttrLines))
                 ELSE _get_label(item)
  IN  Put(nds, item_id,
          [label |-> label,
           shape |-> Get(NODE_SHAPES, item_type),
           fillcolor |-> Get(NODE_COLORS, item_type),
           style |-> "filled",
           type |-> item_type])

\* _get_edge_endpoints with the two roles of prov:Delegation in the wrong order
EndpointsDelegationSwapped(item, relation_type) ==
  CASE relation_type = "prov:Generation" -> <<GetOpt(item, "activity"), GetOpt(item, "entity")>>
    [] relation_type = "prov:Usage" -> <<GetOpt(item, "activity"), GetOpt(item, "entity")>>
    [] relation_type = "prov:Derivation" -> <<GetOpt(item, "usedEntity"), GetOpt(item, "generatedEntity")>>
    [] relation_type = "prov:Association" -> <<GetOpt(item, "activity"), GetOpt(item, "agent")>>
    [] relation_type = "prov:Attribution" -> <<GetOpt(item, "entity"), GetOpt(item, "agent")>>
    [] relation_type = "prov:Communication" -> <<GetOpt(item, "informant"), GetOpt(item, "informed")>>
    [] relation_type = "prov:Delegation" -> <<GetOpt(item, "delegate"), GetOpt(item, "responsible")>>
    [] relation_type = "prov:Start" -> <<GetOpt(item, "trigger"), GetOpt(item, "activity")>>
    [] relation_type = "prov:End" -> <<GetOpt(item, "trigger"), GetOpt(item, "activity")>>
    [] relation_type = "prov:Invalidation" -> <<GetOpt(item, "activity"), GetOpt(item, "entity")>>
    [] relation_type = "prov:Influence" -> <<GetOpt(item, "influencer"), GetOpt(item, "influencee")>>
    [] relation_type = "provext:Specialization" -> <<GetOpt(item, "generalEntity"), GetOpt(item, "specificEntity")>>
    [] relation_type = "provext:Alternate" -> <<GetOpt(item, "alternate1"), GetOpt(item, "alternate2")>>
    [] relation_type = "provext:Membership" -> <<GetOpt(item, "collection"), GetOpt(item, "entity")>>
    [] OTHER -> <<None, None>>

\* (source, target) of a relation item; None for a missing key or an unknown type
_get_edge_endpoints(item, relation_type) ==
  CASE relation_type = "prov:Generation" -> <<GetOpt(item, "activity"), GetOpt(item, "entity")>>
    [] relation_type = "prov:Usage" -> <<GetOpt(item, "activity"), GetOpt(item, "entity")>>
    [] relation_type = "prov:Derivation" -> <<GetOpt(item, "usedEntity"), GetOpt(item, "generatedEntity")>>
    [] relation_type = "prov:Association" -> <<GetOpt(item, "activity"), GetOpt(item, "agent")>>
    [] relation_type = "prov:Attribution" -> <<GetOpt(item, "entity"), GetOpt(item, "agent")>>
    [] relation_type = "prov:Communication" -> <<GetOpt(item, "informant"), GetOpt(item, "informed")>>
    [] relation_type = "prov:Delegation" -> <<GetOpt(item, "responsible"), GetOpt(item, "delegate")>>
    [] relation_type = "prov:Start" -> <<GetOpt(item, "trigger"), GetOpt(item, "activity")>>
    [] relation_type = "prov:End" -> <<GetOpt(item, "trigger"), GetOpt(item, "activity")>>
    [] relation_type = "prov:Invalidation" -> <<GetOpt(item, "activity"), GetOpt(item, "entity")>>
    [] relation_type = "prov:Influence" -> <<GetOpt(item, "influencer"), GetOpt(item, "influencee")>>
    [] relation_type = "provext:Specialization" -> <<GetOpt(item, "generalEntity"), GetOpt(item, "specificEntity")>>
    [] relation_type = "provext:Alternate" -> <<GetOpt(item, "alternate1"), GetOpt(item, "alternate2")>>
    [] relation_type = "provext:Membership" -> <<GetOpt(item, "collection"), GetOpt(item, "entity")>>
    [] OTHER -> <<None, None>>

\* extra_info of _process_simple_relation: the role part
RoleInfo(item) ==
  LET roles == GetOpt(item, "prov:role")
  IN  IF /\ Has(item, "prov:role")
         /\ roles.t = "list" /\ Len(roles.l) > 0
         /\ roles.l[1].t = "obj" /\ Has(roles.l[1].o, "@value")
        THEN <<"role:" \o Get(roles.l[1].o, "@value")>>
        ELSE <<>>

\* TimeInfo keeping the fraction of the seconds (no split at '.')
TimeInfoKeepFraction(item) ==
  LET time_val == IF Has(item, "time") THEN Get(item, "time")
                  ELSE GetOpt(item, "prov:time")
  IN  IF /\ Has(item, "time") \/ Has(item, "prov:time")
         /\ time_val.t = "str"
         /\ HasChar(time_val.s, "T")
        THEN <<"@" \o BeforeFirst(AfterFirst(time_val.s, "T"), "T")>>
        ELSE <<>>

\* extra_info of _process_simple_relation: the time part
TimeInfo(item) ==
  LET time_val == IF Has(item, "time") THEN Get(item, "time")
                  ELSE GetOpt(item, "prov:time")
  IN  IF /\ Has(item, "time") \/ Has(item, "prov:time")
         /\ time_val.t = "str"
         /\ HasChar(time_val.s, "T")
        THEN <<"@" \o BeforeFirst(BeforeFirst(AfterFirst(time_val.s, "T"), "T"), ".")>>
        ELSE <<>>

\* EdgeLabel without the test of extra_info: the parentheses are always appended
EdgeLabelAlwaysAnnotated(item, edge_style) ==
  edge_style.label \o "\\n(" \o Join(", ", RoleInfo(item) \o TimeInfo(item)) \o ")"

\* edge['label'] of _process_simple_relation (show_relation_labels is always True)
EdgeLabel(item, edge_style) ==
  LET extra_info == RoleInfo(item) \o TimeInfo(item)
  IN  IF extra_info # <<>>
        THEN edge_style.label \o "\\n(" \o Join(", ", extra_info) \o ")"
        ELSE edge_style.label

\* _process_simple_relation returning early only when both endpoints are missing
RelationKeptWithOneEndpoint(eds, item) ==
  LET relation_type == Get(item, "@type").s
      ends == _get_edge_endpoints(item, relation_type)
      edge_style == Get(EDGE_STYLES, relation_type)
  IN  IF ~Truthy(ends[1]) /\ ~Truthy(ends[2]) THEN eds
      ELSE Append(eds,
             [source |-> ends[1].s,
              target |-> ends[2].s,
              style |-> edge_style.style,
              dir |-> edge_style.dir,
              arrowhead |-> IF edge_style.arrowhead = <<>> THEN "normal"
                            ELSE edge_style.arrowhead[1],
              color |-> edge_style.color,
              label |-> EdgeLabel(item, edge_style)])

\* self.edges after _process_simple_relation(item)
_process_simple_relation(eds, item) ==
  LET relation_type == Get(item, "@type").s
      ends == _get_edge_endpoints(item, relation_type)
      edge_style == Get(EDGE_STYLES, relation_type)
  IN  IF ~Truthy(ends[1]) \/ ~Truthy(ends[2]) THEN eds
      ELSE Append(eds,
             [source |-> ends[1].s,
              target |-> ends[2].s,
              style |-> edge_style.style,
              dir |-> edge_style.dir,
              arrowhead |-> IF edge_style.arrowhead = <<>> THEN "normal"
                            ELSE edge_style.arrowhead[1],
              color |-> edge_style.color,
              label |-> EdgeLabel(item, edge_style)])

\* _make_safe_id testing isalnum on the sanitized text with its underscores
SafeIdUnderscoresCounted(node_id) ==
  LET safe_id == Replace(node_id, {":", "/", "-", ".", "#"}, "_")
  IN  IF ~isalnum(safe_id)
        THEN "\"" \o node_id \o "\""
        ELSE safe_id

_make_safe_id(node_id) ==
  LET safe_id == Replace(node_id, {":", "/", "-", ".", "#"}, "_")
  IN  IF ~isalnum(Replace(safe_id, {"_"}, ""))
        THEN "\"" \o node_id \o "\""
        ELSE safe_id

\* the node statements of _generate_dot
RECURSIVE NodeLines(_)
NodeLines(nds) ==
  IF nds = <<>> THEN <<>>
  ELSE LET p == nds[1][2]
           props_str == Join(", ",
             <<"label=\"" \o p.label \o "\"", "shape=\"" \o p.shape \o "\"",
               "fillcolor=\"" \o p.fillcolor \o "\"",
               "style=\"" \o p.style \o "\"", "type=\"" \o p.type \o "\"">>)
       IN  <<"  " \o _make_safe_id(nds[1][1]) \o " [" \o props_str \o "];">>
             \o NodeLines(Tail(nds))

\* the edge statements of _generate_dot
RECURSIVE EdgeLines(_)
EdgeLines(eds) ==
  IF eds = <<>> THEN <<>>
  ELSE LET edge == eds[1]
           props_str == Join(", ",
             (IF edge.label # "" THEN <<"label=\"" \o edge.label \o "\"">> ELSE <<>>)
             \o <<"style=" \o edge.style, "dir=" \o edge.dir>>
             \o (IF edge.color # <<>> THEN <<"color=\"" \o edge.color[1] \o "\"">> ELSE <<>>)
             \o <<"arrowhead=" \o edge.arrowhead>>)
       IN  <<"  " \o _make_safe_id(edge.source) \o " -> "
               \o _make_safe_id(edge.target) \o " [" \o props_str \o "];">>
             \o EdgeLines(Tail(eds))

_generate_dot(nds, eds, dir) ==
  Join("\n",
       <<"digraph PROV {", "  rankdir=" \o dir \o ";",
         "  node [fontname=\"Helvetica\"];", "  edge [fontname=\"Helvetica\"];", "">>
       \o NodeLines(nds) \o <<"">> \o EdgeLines(eds) \o <<"}">>)

\* the loop of convert over @graph: <<self.nodes, self.edges>> after it
RECURSIVE ProcessGraph(_, _, _, _, _)
ProcessGraph(nds, eds, ns, show, graph) ==
  IF graph = <<>> THEN <<nds, eds>>
  ELSE LET item == graph[1]
           item_type == GetOpt(item, "@type")
       IN  IF item_type.t = "str" /\ Has(NODE_SHAPES, item_type.s)
             THEN ProcessGraph(_process_node(nds, ns, show, item), eds, ns, show,
                               Tail(graph))
           ELSE IF /\ Truthy(item_type)
                   /\ StartsWith(item_type.s, "prov:") \/ StartsWith(item_type.s, "provext:")
             THEN ProcessGraph(nds, _process_simple_relation(eds, item), ns, show,
                               Tail(graph))
           ELSE ProcessGraph(nds, eds, ns, show, Tail(graph))

\* ProvJsonldToGraphviz.convert on a converter in state self = [nodes, edges,
\* namespaces, show_attributes, direction]: the state after it and the DOT text
convert(self, prov_jsonld) ==
  LET ns == _extract_namespaces(self.namespaces,
              IF Has(prov_jsonld, "@context") THEN Get(prov_jsonld, "@context").c
              ELSE <<>>)
      graph == IF Has(prov_jsonld, "@graph") THEN Get(prov_jsonld, "@graph").g
               ELSE <<>>
      ne == ProcessGraph(self.nodes, self.edges, ns, self.show_attributes, graph)
  IN  [self |-> [self EXCEPT !.namespaces = ns, !.nodes = ne[1], !.edges = ne[2]],
       dot |-> _generate_dot(ne[1], ne[2], self.direction)]

\* ProvJsonldToGraphviz.__init__
NewGraphviz(show, dir) ==
  [show_attributes |-> show, direction |-> dir, nodes |-> <<>>, edges |-> <<>>,
   namespaces |-> <<>>]

(***************************************************************************)
(* prov2ld.py: ProvJsonToJsonldConverter                                   *)
(* A PROV-JSON document is a dict: 'prefix' -> a dict of namespaces,        *)
(* 'bundle' -> a dict of bundle documents, a category -> a dict from        *)
(* statement identifier to the statement's dict of JSON values.            *)
(***************************************************************************)
PROV_JSONLD_CONTEXT == "https://openprovenance.org/prov-jsonld/context.json"

TYPE_MAPPINGS ==
  << <<"entity", "prov:Entity">>, <<"activity", "prov:Activity">>,
     <<"agent", "prov:Agent">>, <<"wasGeneratedBy", "prov:Generation">>,
     <<"used", "prov:Usage">>, <<"wasInformedBy", "prov:Communication">>,
     <<"wasStartedBy", "prov:Start">>, <<"wasEndedBy", "prov:End">>,
     <<"wasInvalidatedBy", "prov:Invalidation">>,
     <<"wasDerivedFrom", "prov:Derivation">>,
     <<"wasAttributedTo", "prov:Attribution">>,
     <<"wasAssociatedWith", "prov:Association">>,
     <<"actedOnBehalfOf", "prov:Delegation">>,
     <<"wasInfluencedBy", "prov:Influence">>,
     <<"specializationOf", "provext:Specialization">>,
     <<"alternateOf", "provext:Alternate">>,
     <<"hadMember", "provext:Membership">> >>

\* Props with the PROV-JSON key kept as the PROV-JSONLD key
PropsKeepPrefix(names) == [i \in DOMAIN names |-> <<"prov:" \o names[i], "prov:" \o names[i]>>]

\* One RELATION_PROPERTIES entry: every PROV-JSON key 'prov:<name>' maps to <name>.
Props(names) == [i \in DOMAIN names |-> <<"prov:" \o names[i], names[i]>>]

RELATION_PROPERTIES ==
  << <<"wasGeneratedBy", Props(<<"entity", "activity", "time">>)>>,
     <<"used", Props(<<"entity", "activity", "time">>)>>,
     <<"wasInformedBy", Props(<<"informed", "informant">>)>>,
     <<"wasStartedBy", Props(<<"activity", "trigger", "starter", "time">>)>>,
     <<"wasEndedBy", Props(<<"activity", "trigger", "ender", "time">>)>>,
     <<"wasInvalidatedBy", Props(<<"entity", "activity", "time">>)>>,
     <<"wasDerivedFrom", Props(<<"generatedEntity", "usedEntity", "activity", "generation", "usage">>)>>,
     <<"wasAttributedTo", Props(<<"entity", "agent">>)>>,
     <<"wasAssociatedWith", Props(<<"activity", "agent", "plan">>)>>,
     <<"actedOnBehalfOf", Props(<<"delegate", "responsible", "activity">>)>>,
     <<"wasInfluencedBy", Props(<<"influencee", "influencer">>)>>,
     <<"specializationOf", Props(<<"specificEntity", "generalEntity">>)>>,
     <<"alternateOf", Props(<<"alternate1", "alternate2">>)>>,
     <<"hadMember", Props(<<"collection", "entity">>)>> >>

\* ProvJsonToJsonldConverter._extract_namespaces
LdExtractNamespaces(prov_json) ==
  IF Has(prov_json, "prefix") THEN Get(prov_json, "prefix") ELSE <<>>

_build_context(ns) ==
  (IF ns # <<>> THEN <<CDict(ns)>> ELSE <<>>) \o <<CIri(PROV_JSONLD_CONTEXT)>>

\* value, made a list when it is not one
AsList(value) ==
  CASE value.t = "list" -> value.l
    [] value.t = "obj" -> <<EObj(value.o)>>
    [] value.t = "num" -> <<ENum(value.s)>>
    [] value.t = "none" -> <<ENum("None")>>
    [] OTHER -> <<EStr(value.s)>>

\* the value object _convert_value makes of one element
ConvertedValue(item) ==
  IF item.t = "obj"
    THEN IF Has(item.o, "$") \/ Has(item.o, "type")
           THEN EObj((IF Has(item.o, "$") THEN <<<<"@value", Get(item.o, "$")>>>> ELSE <<>>)
                     \o (IF Has(item.o, "type") THEN <<<<"@type", Get(item.o, "type")>>>> ELSE <<>>)
                     \o (IF Has(item.o, "lang") THEN <<<<"@language", Get(item.o, "lang")>>>> ELSE <<>>))
           ELSE item
    ELSE EObj(<<<<"@value", item.s>>>>)

_convert_value(value) ==
  LET items == AsList(value)
  IN  List([i \in DOMAIN items |-> ConvertedValue(items[i])])

\* the value object _convert_label makes of one element
ConvertedLabel(item) ==
  IF item.t = "obj"
    THEN EObj(<<<<"@value", IF Has(item.o, "$") THEN Get(item.o, "$") ELSE "">>>>
              \o (IF Has(item.o, "lang") THEN <<<<"@language", Get(item.o, "lang")>>>> ELSE <<>>))
    ELSE EObj(<<<<"@value", item.s>>>>)

_convert_label(value) ==
  LET items == AsList(value)
  IN  List([i \in DOMAIN items |-> ConvertedLabel(items[i])])

\* the attribute loop of _convert_element: obj after the (key, value) pairs of data
RECURSIVE ElementAttributes(_, _)
ElementAttributes(obj, data) ==
  IF data = <<>> THEN obj
  ELSE LET key == data[1][1]
           value == data[1][2]
       IN  ElementAttributes(
             IF key = "prov:label" THEN Put(obj, key, _convert_label(value))
             ELSE IF StartsWith(key, "prov:") \/ HasChar(key, ":")
               THEN Put(obj, key, _convert_value(value))
             ELSE obj,
             Tail(data))

_convert_element(item_id, item_data, type_name) ==
  LET obj == ElementAttributes(
               << <<"@type", Str(type_name)>>, <<"@id", Str(item_id)>> >>, item_data)
      started == IF type_name = "prov:Activity" /\ Has(item_data, "prov:startTime")
                   THEN Put(obj, "startTime", Get(item_data, "prov:startTime"))
                   ELSE obj
  IN  IF type_name = "prov:Activity" /\ Has(item_data, "prov:endTime")
        THEN Put(started, "endTime", Get(item_data, "prov:endTime"))
        ELSE started

\* the first loop of _convert_relation: obj after the entries of property_map
RECURSIVE MappedProperties(_, _, _)
MappedProperties(obj, property_map, item_data) ==
  IF property_map = <<>> THEN obj
  ELSE MappedProperties(
         IF Has(item_data, property_map[1][1])
           THEN Put(obj, property_map[1][2], Get(item_data, property_map[1][1]))
           ELSE obj,
         Tail(property_map), item_data)

\* the second loop of _convert_relation: obj after the (key, value) pairs of data
RECURSIVE RelationAttributes(_, _, _)
RelationAttributes(obj, property_map, data) ==
  IF data = <<>> THEN obj
  ELSE LET key == data[1][1]
           value == data[1][2]
       IN  RelationAttributes(
             IF Has(property_map, key) THEN obj
             ELSE IF key = "prov:label" THEN Put(obj, key, _convert_label(value))
             ELSE IF StartsWith(key, "prov:") \/ HasChar(key, ":")
               THEN Put(obj, key, _convert_value(value))
             ELSE obj,
             property_map, Tail(data))

_convert_relation(item_id, item_data, type_name, category) ==
  LET obj == (IF item_id # "" THEN << <<"@type", Str(type_name)>>, <<"@id", Str(item_id)>> >>
              ELSE << <<"@type", Str(type_name)>> >>)
      property_map == IF Has(RELATION_PROPERTIES, category)
                        THEN Get(RELATION_PROPERTIES, category) ELSE <<>>
  IN  RelationAttributes(MappedProperties(obj, property_map, item_data),
                         property_map, item_data)

_convert_item(item_id, item_data, type_name, category) ==
  IF Has(RELATION_PROPERTIES, category)
    THEN _convert_relation(item_id, item_data, type_name, category)
    ELSE _convert_element(item_id, item_data, type_name)

_convert_category(category, items, type_name) ==
  [i \in DOMAIN items |-> _convert_item(items[i][1], items[i][2], type_name, category)]

\* ConvertCategories looping over the keys of the document, in their order
RECURSIVE ConvertCategoriesInDocumentOrder(_, _)
ConvertCategoriesInDocumentOrder(mappings, data) ==
  IF data = <<>> THEN <<>>
  ELSE (IF Has(mappings, data[1][1])
          THEN _convert_category(data[1][1], data[1][2], Get(mappings, data[1][1]))
          ELSE <<>>)
       \o ConvertCategoriesInDocumentOrder(mappings, Tail(data))

\* the loop over TYPE_MAPPINGS of convert and _convert_bundle
RECURSIVE ConvertCategories(_, _)
ConvertCategories(mappings, data) ==
  IF mappings = <<>> THEN <<>>
  ELSE (IF Has(data, mappings[1][1])
          THEN _convert_category(mappings[1][1], Get(data, mappings[1][1]), mappings[1][2])
          ELSE <<>>)
       \o ConvertCategories(Tail(mappings), data)

_convert_bundle(bundle_id, bundle_data) ==
  LET bundle_namespaces == IF Has(bundle_data, "prefix") THEN Get(bundle_data, "prefix")
                           ELSE <<>>
      bundle_context == (IF bundle_namespaces # <<>> THEN <<CDict(bundle_namespaces)>>
                         ELSE <<>>) \o <<CIri(PROV_JSONLD_CONTEXT)>>
  IN  << <<"@type", Str("prov:Bundle")>>, <<"@id", Str(bundle_id)>>,
         <<"@context", Ctx(bundle_context)>>,
         <<"@graph", Graph(ConvertCategories(TYPE_MAPPINGS, bundle_data))>> >>

\* the loop of convert over prov_json['bundle']
Bundles(prov_json) ==
  IF Has(prov_json, "bundle")
    THEN LET b == Get(prov_json, "bundle")
         IN  [i \in DOMAIN b |-> _convert_bundle(b[i][1], b[i][2])]
    ELSE <<>>

\* ProvJsonToJsonldConverter.convert: self.namespaces after it and the document
LdConvert(prov_json) ==
  LET ns == LdExtractNamespaces(prov_json)
  IN  [namespaces |-> ns,
       result |-> << <<"@context", Ctx(_build_context(ns))>>,
                     <<"@graph", Graph(Bundles(prov_json)
                                       \o ConvertCategories(TYPE_MAPPINGS, prov_json))>> >>]

(***************************************************************************)
(* State machines.  A converter object is constructed (Init) and its       *)
(* convert method is called; each call is one action.                      *)
(***************************************************************************)
\* the longest @graph drawn for a direct call of ProvJsonldToGraphviz.convert
MaxItems == 3

\* the most convert calls made on one converter object where it is used again
MaxCalls == 2

\* sequences over S of length at most n
RECURSIVE SeqUpTo(_, _)
SeqUpTo(S, n) ==
  IF n = 0 THEN {<<>>}
  ELSE LET shorter == SeqUpTo(S, n - 1)
       IN  shorter \cup {Append(q, x) : q \in {r \in shorter : Len(r) = n - 1}, x \in S}

\* ProvJsonldToGraphviz.__init__
InitViz ==
  /\ show_attributes \in BOOLEAN
  /\ direction = "LR"
  /\ nodes = <<>>
  /\ edges = <<>>
  /\ namespaces = <<>>
  /\ vizIn = <<>>
  /\ vizOut = ""
  /\ vizPrev = [nodes |-> <<>>, edges |-> <<>>]
  /\ calls = 0

\* ProvJsonToJsonldConverter.__init__
InitLd ==
  /\ ldNamespaces = <<>>
  /\ ldIn = <<>>
  /\ ldOut = <<>>
  /\ ldCalls = 0

\* no single method applied yet
InitFn ==
  /\ op = ""
  /\ arg = <<>>
  /\ ret = <<>>

\* the ProvJsonldToGraphviz object as the model's variables hold it
Self ==
  [show_attributes |-> show_attributes, direction |-> direction, nodes |-> nodes,
   edges |-> edges, namespaces |-> namespaces]

\* one call of ProvJsonldToGraphviz.convert(prov_jsonld) on the converter
VizConvertCall(prov_jsonld) ==
  LET r == convert(Self, prov_jsonld)
  IN  /\ nodes' = r.self.nodes
      /\ edges' = r.self.edges
      /\ namespaces' = r.self.namespaces
      /\ vizIn' = prov_jsonld
      /\ vizOut' = r.dot
      /\ vizPrev' = [nodes |-> nodes, edges |-> edges]
      /\ calls' = calls + 1
      /\ UNCHANGED <<show_attributes, direction>>

\* one call of ProvJsonToJsonldConverter.convert(prov_json) on the converter
LdConvertCall(prov_json) ==
  LET r == LdConvert(prov_json)
  IN  /\ ldNamespaces' = r.namespaces
      /\ ldIn' = prov_json
      /\ ldOut' = r.result
      /\ ldCalls' = ldCalls + 1

(***************************************************************************)
(* Inputs: PROV-JSON documents                                             *)
(***************************************************************************)
\* the two endpoint roles of each relation category, in the order in which
\* _get_edge_endpoints returns them: <<category, source role, target role>>
ENDPOINT_ROLES ==
  << <<"wasGeneratedBy", "activity", "entity">>,
     <<"used", "activity", "entity">>,
     <<"wasDerivedFrom", "usedEntity", "generatedEntity">>,
     <<"wasAssociatedWith", "activity", "agent">>,
     <<"wasAttributedTo", "entity", "agent">>,
     <<"wasInformedBy", "informant", "informed">>,
     <<"actedOnBehalfOf", "responsible", "delegate">>,
     <<"wasStartedBy", "trigger", "activity">>,
     <<"wasEndedBy", "trigger", "activity">>,
     <<"wasInvalidatedBy", "activity", "entity">>,
     <<"wasInfluencedBy", "influencer", "influencee">>,
     <<"specializationOf", "generalEntity", "specificEntity">>,
     <<"alternateOf", "alternate1", "alternate2">>,
     <<"hadMember", "collection", "entity">> >>

\* a dict entry for an optional key: x is <<>> (no key) or <<value>>
Opt(key, x) == IF x = <<>> THEN <<>> ELSE << <<key, x[1]>> >>

\* what an endpoint key of an input relation record may hold
SourceRefs == {<<>>, <<Str("")>>, <<Str("ex:a1")>>}

TargetRefs == {<<>>, <<Str("")>>, <<Str("e1")>>}

\* the attributes a relation record may carry beside its endpoints
RelationExtras ==
  { <<>>,
    << <<"prov:role", Obj(<< <<"$", "writer">>, <<"type", "xsd:string">> >>)>>,
       <<"prov:time", Str("2024-01-02T03:04:05.678")>>,
       <<"ex:note", Str("n")>>, <<"plain", Str("dropped")>> >> }

\* the PROV-JSON records of category ENDPOINT_ROLES[k][1]
RelationRecords(k) ==
  { Opt("prov:" \o ENDPOINT_ROLES[k][2], a) \o x
      \o Opt("prov:" \o ENDPOINT_ROLES[k][3], b) :
      a \in SourceRefs, b \in TargetRefs, x \in RelationExtras }

ProvPrefix == << <<"ex", Str("http://example.org/")>> >>

ProvEntities ==
  << <<"e1", << <<"prov:label", Str("Entity one")>>,
                <<"prov:type", Obj(<< <<"$", "ex:File">>, <<"type", "prov:QUALIFIED_NAME">> >>)>> >> >> >>

ProvActivities ==
  << <<"ex:a1", << <<"prov:startTime", Str("2024-01-02T03:00:00")>>,
                   <<"ex:host", List(<<EStr("h1"), ENum("2")>>)>> >> >> >>

\* the element categories beside the relation: none, before it, or after it and
\* in reverse order (the key order of the document is the reader's insertion order)
ElementFrames == {"none", "before", "after"}

\* documents holding one relation record, alone or with one entity and one activity
RelationDocs ==
  UNION { { (IF frame = "before"
               THEN << <<"prefix", ProvPrefix>>, <<"entity", ProvEntities>>,
                       <<"activity", ProvActivities>> >>
               ELSE <<>>)
            \o << <<ENDPOINT_ROLES[k][1], << <<"_:id1", rec>> >> >> >>
            \o (IF frame = "after"
                  THEN << <<"activity", ProvActivities>>, <<"entity", ProvEntities>> >>
                  ELSE <<>>) :
              frame \in ElementFrames, rec \in RelationRecords(k) } :
          k \in DOMAIN ENDPOINT_ROLES }

ProvDocs == RelationDocs

(***************************************************************************)
(* Spec: one run of prov2ld.py's converter followed by one run of          *)
(* ld2viz.py's converter on the document it returned.                      *)
(***************************************************************************)
Init == InitViz /\ InitLd /\ InitFn

\* ProvJsonToJsonldConverter().convert(prov_json)
LdMain ==
  /\ ldCalls = 0
  /\ \E prov_json \in ProvDocs : LdConvertCall(prov_json)
  /\ UNCHANGED <<vizVars, fnVars>>

\* ProvJsonldToGraphviz(...).convert(prov_jsonld) on the document LdMain returned
VizMain ==
  /\ ldCalls = 1
  /\ calls = 0
  /\ VizConvertCall(ldOut)
  /\ UNCHANGED <<ldVars, fnVars>>

Next == LdMain \/ VizMain

Spec == Init /\ [][Next]_vars

(***************************************************************************)
(* Inputs: PROV-JSONLD documents handed to ProvJsonldToGraphviz directly   *)
(***************************************************************************)
\* the relation @type of each category of ENDPOINT_ROLES
RelationType(k) == Get(TYPE_MAPPINGS, ENDPOINT_ROLES[k][1])

EntityE1 == << <<"@type", Str("prov:Entity")>>, <<"@id", Str("e1")>> >>

EntityE2 ==
  << <<"@type", Str("prov:Entity")>>, <<"@id", Str("ex:e2")>>,
     <<"prov:label", List(<<EObj(<< <<"@value", "Two">> >>)>>)>>,
     <<"http://example.org/note",
       List(<<EObj(<< <<"@value", "a value of more than thirty characters">> >>)>>)>> >>

ActivityNoId ==
  << <<"@type", Str("prov:Activity")>>, <<"name", List(<<EStr("Run")>>)>> >>

AgentAnon1 == << <<"@type", Str("prov:Agent")>>, <<"@id", Str("anon_1")>> >>

DerivationE1E2 ==
  << <<"@type", Str("prov:Derivation")>>, <<"usedEntity", Str("e1")>>,
     <<"generatedEntity", Str("ex:e2")>> >>

DerivationWithRole ==
  << <<"@type", Str("prov:Derivation")>>, <<"usedEntity", Str("ex:e2")>>,
     <<"generatedEntity", Str("e1")>>,
     <<"prov:role", List(<<EObj(<< <<"@value", "copy">> >>)>>)>> >>

UsageWithTime ==
  << <<"@type", Str("prov:Usage")>>, <<"@id", Str("_:u1")>>,
     <<"activity", Str("a 1")>>, <<"entity", Str("e1")>>,
     <<"time", Str("2024-01-02T03:04:05.678")>> >>

UnknownType == << <<"@type", Str("ex:Thing")>>, <<"@id", Str("t1")>> >>

\* the items the graphs of every length are drawn from
CoreItems ==
  {EntityE1, EntityE2, ActivityNoId, AgentAnon1, DerivationE1E2,
   DerivationWithRole, UsageWithTime, UnknownType}

\* the relation items of type RelationType(k): each endpoint role missing, empty
\* or naming an identifier
RelationItems(k) ==
  { << <<"@type", Str(RelationType(k))>> >>
      \o Opt(ENDPOINT_ROLES[k][3], b) \o Opt(ENDPOINT_ROLES[k][2], a) :
      a \in {<<>>, <<Str("")>>, <<Str("s:1")>>}, b \in {<<>>, <<Str("")>>, <<Str("t1")>>} }

\* one relation item of any type, alone, after a node, before a relation, or both
FramedGraphs ==
  UNION { { before \o <<x>> \o after :
              before \in {<<>>, <<EntityE1>>}, after \in {<<>>, <<DerivationE1E2>>},
              x \in RelationItems(k) } :
          k \in DOMAIN ENDPOINT_ROLES }

VizGraphs == SeqUpTo(CoreItems, MaxItems) \cup FramedGraphs

VizContexts ==
  { <<>>,
    << <<"@context",
         Ctx(<<CDict(<< <<"ex", Str("http://example.org/")>> >>),
               CIri(PROV_JSONLD_CONTEXT)>>)>> >> }

VizDocs == { ctx \o << <<"@graph", Graph(g)>> >> : ctx \in VizContexts, g \in VizGraphs }

(***************************************************************************)
(* SpecViz: one convert call on a newly constructed ProvJsonldToGraphviz   *)
(***************************************************************************)
VizDirect ==
  /\ calls = 0
  /\ \E prov_jsonld \in VizDocs : VizConvertCall(prov_jsonld)
  /\ UNCHANGED <<ldVars, fnVars>>

NextViz == VizDirect

SpecViz == Init /\ [][NextViz]_vars

(***************************************************************************)
(* SpecReuse: several convert calls on the same converter objects          *)
(***************************************************************************)
ReuseDocs ==
  { ctx \o << <<"@graph", Graph(g)>> >> :
      ctx \in VizContexts,
      g \in {<<>>, <<EntityE1>>, <<DerivationE1E2>>, <<AgentAnon1, ActivityNoId>>} }

ReuseProvDocs ==
  { << <<"prefix", ProvPrefix>>, <<"entity", ProvEntities>> >>,
    << <<"activity", ProvActivities>> >>,
    << <<"prefix", << <<"ex", Str("http://other.example/")>> >> >> >> }

VizAgain ==
  /\ calls < MaxCalls
  /\ \E prov_jsonld \in ReuseDocs : VizConvertCall(prov_jsonld)
  /\ UNCHANGED <<ldVars, fnVars>>

LdAgain ==
  /\ ldCalls < MaxCalls
  /\ \E prov_json \in ReuseProvDocs : LdConvertCall(prov_json)
  /\ UNCHANGED <<vizVars, fnVars>>

NextReuse == VizAgain \/ LdAgain

SpecReuse == Init /\ [][NextReuse]_vars

(***************************************************************************)
(* Single methods of ProvJsonldToGraphviz: Init draws the argument, the    *)
(* action applies the method.                                              *)
(***************************************************************************)
\* the longest text drawn after the scheme of a URI
MaxUriLen == 3

\* how often _shorten_uri is applied to its own result
MaxApplications == 2

\* the longest identifier drawn for _make_safe_id
MaxIdLen == 3

RECURSIVE Texts(_, _)
\* the strings over the characters of chars of length at most n
Texts(chars, n) ==
  IF n = 0 THEN {""}
  ELSE LET shorter == Texts(chars, n - 1)
       IN  shorter \cup {t \o ch : t \in {u \in shorter : Len(u) = n - 1}, ch \in chars}

\* self.namespaces as _extract_namespaces leaves it for some @context lists
UriNamespaces ==
  { _extract_namespaces(<<>>, context) :
      context \in
        { <<>>,
          <<CDict(<< <<"ex", Str("http://a/")>> >>), CIri(PROV_JSONLD_CONTEXT)>>,
          <<CDict(<< <<"ex", Str("http://a")>>, <<"ey", Str("http://a/")>> >>)>>,
          <<CDict(<< <<"http", Str("http://")>> >>)>>,
          <<CDict(<< <<"https", Str("https://a")>>, <<"v", Obj(<< <<"@id", "http://">> >>)>> >>),
            CDict(<< <<"ex", Str("http://a:")>> >>)>> } }

Uris ==
  {"e1", "ex:e1"} \cup
  { scheme \o rest : scheme \in {"http://", "https://"},
                     rest \in Texts({"a", "/", ":"}, MaxUriLen) }

InitUri ==
  /\ InitViz /\ InitLd
  /\ op = "_shorten_uri"
  /\ arg \in [ns : UriNamespaces, uri : Uris]
  /\ ret = <<>>

\* _shorten_uri applied to the argument, then to its own last result
ShortenUri ==
  /\ op = "_shorten_uri"
  /\ Len(ret) < MaxApplications
  /\ ret' = Append(ret, _shorten_uri(arg.ns, IF ret = <<>> THEN arg.uri ELSE ret[Len(ret)]))
  /\ UNCHANGED <<vizVars, ldVars, op, arg>>

NextUri == ShortenUri

SpecUri == InitUri /\ [][NextUri]_vars

IdChars == {"a", "Z", "7", "_", ":", "/", "-", ".", "#", " ", "é"}

InitSafeId ==
  /\ InitViz /\ InitLd
  /\ op = "_make_safe_id"
  /\ arg \in Texts(IdChars, MaxIdLen)
  /\ ret = <<>>

MakeSafeId ==
  /\ op = "_make_safe_id"
  /\ ret = <<>>
  /\ ret' = <<_make_safe_id(arg)>>
  /\ UNCHANGED <<vizVars, ldVars, op, arg>>

NextSafeId == MakeSafeId

SpecSafeId == InitSafeId /\ [][NextSafeId]_vars

\* what prov:role may hold on a relation item
RoleValues ==
  { <<>>,
    <<List(<<EObj(<< <<"@value", "writer">> >>), EObj(<< <<"@value", "other">> >>)>>)>>,
    <<List(<<>>)>>,
    <<List(<<EObj(<< <<"@type", "xsd:string">> >>)>>)>>,
    <<List(<<EStr("writer")>>)>>,
    <<Str("writer")>> }

\* what time may hold on a relation item
TimeValues ==
  { <<>>, <<Str("2024-01-02T03:04:05.678")>>, <<Str("2024-01-02T03:04:05")>>,
    <<Str("2024-01-02")>>, <<Str("T")>>, <<Str("1T2T3")>>, <<Str("")>>,
    <<List(<<EObj(<< <<"@value", "2024-01-02T03:04:05">> >>)>>)>> }

\* what prov:time may hold on a relation item
ProvTimeValues ==
  { <<>>, <<Str("2025-06-07T08:09:10Z")>>,
    <<List(<<EObj(<< <<"@value", "2025-06-07T08:09:10">> >>)>>)>> }

\* relation items with every combination of role and time fields
LabelledRelations ==
  { << <<"@type", Str(type)>>, <<"activity", Str("a1")>> >>
      \o Opt("entity", e) \o Opt("prov:role", r) \o Opt("time", t)
      \o Opt("prov:time", p) :
      type \in {"prov:Generation", "prov:Invalidation"},
      e \in {<<>>, <<Str("e1")>>},
      r \in RoleValues, t \in TimeValues, p \in ProvTimeValues }

InitRelation ==
  /\ InitViz /\ InitLd
  /\ op = "_process_simple_relation"
  /\ arg \in LabelledRelations
  /\ ret = <<>>

\* _process_simple_relation(item) on a converter without edges; ret holds
\* self.edges after it
ProcessRelation ==
  /\ op = "_process_simple_relation"
  /\ ret = <<>>
  /\ ret' = <<_process_simple_relation(<<>>, arg)>>
  /\ UNCHANGED <<vizVars, ldVars, op, arg>>

NextRelation == ProcessRelation

SpecRelation == InitRelation /\ [][NextRelation]_vars

GoodLabel(text) == <<List(<<EObj(<< <<"@value", text>>, <<"@language", "en">> >>)>>)>>

\* node items with every combination of label sources and identifiers
LabelledNodes ==
  { << <<"@type", Str("prov:Entity")>> >> \o Opt("@id", id)
      \o Opt("title", t) \o Opt("name", n) \o Opt("dcterms:title", d)
      \o Opt("foaf:name", f) \o Opt("rdfs:label", r) \o Opt("prov:label", l) :
      id \in {<<>>, <<Str("")>>, <<Str("e1")>>, <<Str("ex:a:b")>>},
      t \in {<<>>} \cup {GoodLabel("T")},
      n \in {<<>>, <<List(<<EStr("N")>>)>>, <<Str("N")>>},
      d \in {<<>>} \cup {GoodLabel("D")},
      f \in {<<>>} \cup {GoodLabel("")},
      r \in {<<>>, <<List(<<EObj(<< <<"@type", "xsd:string">> >>)>>)>>,
             <<List(<<EStr("R")>>)>>} \cup {GoodLabel("R")},
      l \in {<<>>, <<List(<<>>)>>, <<List(<<EStr("L")>>)>>, <<Str("L")>>}
             \cup {GoodLabel("L")} }

InitLabel ==
  /\ InitViz /\ InitLd
  /\ op = "_get_label"
  /\ arg \in LabelledNodes
  /\ ret = <<>>

GetLabel ==
  /\ op = "_get_label"
  /\ ret = <<>>
  /\ ret' = <<_get_label(arg)>>
  /\ UNCHANGED <<vizVars, ldVars, op, arg>>

NextLabel == GetLabel

SpecLabel == InitLabel /\ [][NextLabel]_vars

(***************************************************************************)
(* Claims checked under Spec                                               *)
(***************************************************************************)
\* the relation category of a document of ProvDocs, as an index of ENDPOINT_ROLES
CategoryOf(doc) == CHOOSE k \in DOMAIN ENDPOINT_ROLES : Has(doc, ENDPOINT_ROLES[k][1])

\* the relation record of a document of ProvDocs
RecordOf(doc) == Get(doc, ENDPOINT_ROLES[CategoryOf(doc)][1])[1][2]

SourceKey(doc) == "prov:" \o ENDPOINT_ROLES[CategoryOf(doc)][2]

TargetKey(doc) == "prov:" \o ENDPOINT_ROLES[CategoryOf(doc)][3]

\* the relation record of the converted document carries both endpoint properties
CarriesBothEndpoints ==
  /\ ldCalls = 1
  /\ Has(RecordOf(ldIn), SourceKey(ldIn))
  /\ Has(RecordOf(ldIn), TargetKey(ldIn))

\* exactly one edge, from the value of the source role to that of the target role
OneEdgeBetweenEndpoints ==
  /\ Len(edges) = 1
  /\ edges[1].source = Get(RecordOf(ldIn), SourceKey(ldIn)).s
  /\ edges[1].target = Get(RecordOf(ldIn), TargetKey(ldIn)).s

\* C1 as stated: whenever the relation record carries both endpoint properties
\* of its type, converting it to PROV-JSONLD and then to a graph yields exactly
\* one edge, from the source role's value to the target role's value.
C1_AsStated ==
  (calls = 1 /\ CarriesBothEndpoints) => OneEdgeBetweenEndpoints

\* C1, amended: for each of the fourteen relation categories, a relation record
\* whose two endpoint properties are both present and non-empty yields, through
\* both converters, exactly one edge whose source and target are the values of
\* the source role and the target role of its type, in that order; a record
\* with an empty endpoint value yields no edge.
C1_EndpointsRoundTrip ==
  (calls = 1 /\ CarriesBothEndpoints) =>
    IF /\ Get(RecordOf(ldIn), SourceKey(ldIn)).s # ""
       /\ Get(RecordOf(ldIn), TargetKey(ldIn)).s # ""
      THEN OneEdgeBetweenEndpoints
      ELSE edges = <<>>

\* C1's case: a delegation record with both endpoints has become one edge.
C1_Witness ==
  /\ calls = 1
  /\ CarriesBothEndpoints
  /\ Has(ldIn, "actedOnBehalfOf")
  /\ Len(edges) = 1
  /\ edges[1].source = "ex:a1"
  /\ edges[1].target = "e1"

\* the document holds exactly one entity, one activity and one wasGeneratedBy
\* record, and no bundle
IsGenerationTriple(doc) ==
  /\ Has(doc, "entity") /\ Len(Get(doc, "entity")) = 1
  /\ Has(doc, "activity") /\ Len(Get(doc, "activity")) = 1
  /\ Has(doc, "wasGeneratedBy") /\ Len(Get(doc, "wasGeneratedBy")) = 1
  /\ ~Has(doc, "bundle")
  /\ \A i \in DOMAIN doc :
       doc[i][1] \in {"prefix", "entity", "activity", "wasGeneratedBy"}

\* the @type values of the objects of an @graph, in order
TypesOf(graph) == [i \in DOMAIN graph |-> Get(graph[i], "@type").s]

\* C2: convert of a document with exactly one entity, one activity and one
\* wasGeneratedBy record returns an @graph of exactly three objects typed
\* prov:Entity, prov:Activity, prov:Generation in that order, whose Generation
\* object's activity and entity fields equal the record's prov:activity and
\* prov:entity values.
C2_GenerationTriple ==
  (ldCalls = 1 /\ IsGenerationTriple(ldIn)) =>
    LET graph == Get(ldOut, "@graph").g
        rec == Get(ldIn, "wasGeneratedBy")[1][2]
    IN  /\ TypesOf(graph) = <<"prov:Entity", "prov:Activity", "prov:Generation">>
        /\ \A name \in {"activity", "entity"} :
             /\ Has(graph[3], name) <=> Has(rec, "prov:" \o name)
             /\ Has(rec, "prov:" \o name) =>
                  Get(graph[3], name) = Get(rec, "prov:" \o name)

\* C2's case: such a document, written relation first, has been converted and
\* its record carried both references.
C2_Witness ==
  /\ ldCalls = 1
  /\ IsGenerationTriple(ldIn)
  /\ ldIn[1][1] = "wasGeneratedBy"
  /\ Has(Get(ldIn, "wasGeneratedBy")[1][2], "prov:activity")
  /\ Has(Get(ldIn, "wasGeneratedBy")[1][2], "prov:entity")
  /\ Len(Get(ldOut, "@graph").g) = 3
  /\ Get(Get(ldOut, "@graph").g[3], "activity") = Str("ex:a1")

(***************************************************************************)
(* Claims checked under SpecViz                                            *)
(***************************************************************************)
\* the @graph of the document handed to the last convert call
GraphIn == IF Has(vizIn, "@graph") THEN Get(vizIn, "@graph").g ELSE <<>>

\* item is a relation of one of the fourteen types
IsRelation(item) ==
  /\ Has(item, "@type")
  /\ \E k \in DOMAIN ENDPOINT_ROLES : Get(item, "@type").s = RelationType(k)

\* the index in ENDPOINT_ROLES of a relation item's type
KindOf(item) ==
  CHOOSE k \in DOMAIN ENDPOINT_ROLES : Get(item, "@type").s = RelationType(k)

SourceRole(item) == ENDPOINT_ROLES[KindOf(item)][2]

TargetRole(item) == ENDPOINT_ROLES[KindOf(item)][3]

\* a relation item lacking one of its two endpoint roles
LacksEndpoint(item) ==
  IsRelation(item) /\ (~Has(item, SourceRole(item)) \/ ~Has(item, TargetRole(item)))

\* a relation item whose two endpoint roles are present and non-empty
HasBothEndpoints(item) ==
  /\ IsRelation(item)
  /\ Has(item, SourceRole(item)) /\ Get(item, SourceRole(item)).s # ""
  /\ Has(item, TargetRole(item)) /\ Get(item, TargetRole(item)).s # ""

\* the items of a graph that have both endpoints, in graph order
EdgeItems(graph) == SelectSeq(graph, HasBothEndpoints)

\* the number of occurrences of the character ch in text
Count(text, ch) == Cardinality({i \in 1..Len(text) : CharAt(text, i) = ch})

\* a Derivation with both endpoints and no prov:role, time or prov:time field
IsPlainDerivation(item) ==
  /\ HasBothEndpoints(item)
  /\ Get(item, "@type").s = "prov:Derivation"
  /\ ~Has(item, "prov:role") /\ ~Has(item, "time") /\ ~Has(item, "prov:time")

\* C3: on a new converter, every Derivation item with non-empty usedEntity u and
\* generatedEntity g and no role or time field is given exactly one edge, in
\* item order among the edges, with source u, target g and the label
\* "wasDerivedFrom".
C3_DerivationEdge ==
  calls = 1 =>
    /\ Len(edges) = Len(EdgeItems(GraphIn))
    /\ \A i \in DOMAIN GraphIn :
         IsPlainDerivation(GraphIn[i]) =>
           LET n == Len(EdgeItems(SubSeq(GraphIn, 1, i)))
           IN  /\ n = Len(EdgeItems(SubSeq(GraphIn, 1, i - 1))) + 1
               /\ edges[n].source = Get(GraphIn[i], "usedEntity").s
               /\ edges[n].target = Get(GraphIn[i], "generatedEntity").s
               /\ edges[n].label = "wasDerivedFrom"

\* C3's case: a plain Derivation from e1 to ex:e2 follows another relation and
\* has its edge.
C3_Witness ==
  /\ calls = 1
  /\ Len(GraphIn) = 2
  /\ GraphIn[1] = UsageWithTime
  /\ IsPlainDerivation(GraphIn[2])
  /\ Len(edges) = 2
  /\ edges[2].source = "e1" /\ edges[2].target = "ex:e2"
  /\ edges[2].label = "wasDerivedFrom"

\* C4: a relation item of any of the fourteen types that lacks an endpoint role
\* adds no edge: the edge list holds exactly the edges of the items that have
\* both endpoints, in order; the other items are still processed (every
\* identified node item is in the node set) and the DOT text is produced, with
\* one statement per node and per edge.
C4_MissingEndpointDropped ==
  calls = 1 =>
    LET kept == EdgeItems(GraphIn)
    IN  /\ Len(edges) = Len(kept)
        /\ \A i \in DOMAIN kept :
             /\ edges[i].source = Get(kept[i], SourceRole(kept[i])).s
             /\ edges[i].target = Get(kept[i], TargetRole(kept[i])).s
        /\ \A i \in DOMAIN GraphIn :
             /\ Has(GraphIn[i], "@type")
             /\ Has(NODE_SHAPES, Get(GraphIn[i], "@type").s)
             /\ Has(GraphIn[i], "@id")
             => Has(nodes, Get(GraphIn[i], "@id").s)
        /\ StartsWith(vizOut, "digraph PROV {\n")
        /\ SubSeq(vizOut, Len(vizOut) - 1, Len(vizOut)) = "\n}"
        /\ Count(vizOut, "\n") = 6 + Len(nodes) + Len(edges)

\* C4's case: a relation lacking an endpoint stands between a node and a complete
\* relation; it added no edge, the node and the later edge are there.
C4_Witness ==
  /\ calls = 1
  /\ Len(GraphIn) = 3
  /\ GraphIn[1] = EntityE1
  /\ LacksEndpoint(GraphIn[2])
  /\ Get(GraphIn[2], "@type").s = "provext:Membership"
  /\ GraphIn[3] = DerivationE1E2
  /\ Len(edges) = 1
  /\ Has(nodes, "e1")
  /\ vizOut # ""

\* the identifiers of the node set
NodeIds == {nodes[i][1] : i \in DOMAIN nodes}

\* C5 as stated: after convert, the source and the target of every edge are
\* identifiers of nodes of the node set.
C5_EdgesResolve ==
  calls = 1 =>
    \A i \in DOMAIN edges : edges[i].source \in NodeIds /\ edges[i].target \in NodeIds

(***************************************************************************)
(* Claims checked under SpecReuse                                          *)
(***************************************************************************)
\* C6 as stated: whatever calls came before, the output of a convert call equals
\* the output a newly constructed converter gives for the same input, for
\* ProvJsonldToGraphviz and for ProvJsonToJsonldConverter.
C6_ConvertIsPure ==
  /\ calls > 0 =>
       vizOut = convert(NewGraphviz(show_attributes, direction), vizIn).dot
  /\ ldCalls > 0 => ldOut = LdConvert(ldIn).result

(***************************************************************************)
(* Claims checked under SpecUri                                            *)
(***************************************************************************)
\* C7 as stated: for every namespace map and every input x,
\* _shorten_uri(_shorten_uri(x)) = _shorten_uri(x).
C7_ShortenIdempotent ==
  Len(ret) >= 2 => ret[2] = ret[1]

(***************************************************************************)
(* Claims checked under SpecSafeId                                         *)
(***************************************************************************)
Replaced == {":", "/", "-", ".", "#"}

\* text is arg with each of ':', '/', '-', '.', '#' replaced by '_'
IsSanitized(text, id) ==
  /\ Len(text) = Len(id)
  /\ \A i \in 1..Len(id) :
       CharAt(text, i) = IF CharAt(id, i) \in Replaced THEN "_" ELSE CharAt(id, i)

\* C8 as stated: when the sanitized identifier contains a character outside
\* [A-Za-z0-9_] the result is the original identifier in double quotes, and
\* otherwise it is the sanitized identifier, made only of [A-Za-z0-9_].
C8_AsStated ==
  ret # <<>> =>
    IF \E i \in 1..Len(arg) : CharAt(arg, i) \notin AsciiAlnum \cup {"_"} \cup Replaced
      THEN ret[1] = "\"" \o arg \o "\""
      ELSE /\ IsSanitized(ret[1], arg)
           /\ \A i \in 1..Len(ret[1]) : CharAt(ret[1], i) \in AsciiAlnum \cup {"_"}

\* C8, amended: _make_safe_id replaces each of ':', '/', '-', '.', '#' by '_';
\* if the result holds no character other than '_' (the empty identifier
\* included) or holds a character that is neither '_' nor alphanumeric in the
\* sense of str.isalnum (which accepts letters and digits outside ASCII), it
\* returns the original identifier in double quotes; otherwise it returns the
\* sanitized string, made only of '_' and such alphanumeric characters.
C8_SafeId ==
  ret # <<>> =>
    IF \/ \A i \in 1..Len(arg) : CharAt(arg, i) \in {"_"} \cup Replaced
       \/ \E i \in 1..Len(arg) :
            CharAt(arg, i) \notin AsciiAlnum \cup UnicodeAlnum \cup {"_"} \cup Replaced
      THEN ret[1] = "\"" \o arg \o "\""
      ELSE /\ IsSanitized(ret[1], arg)
           /\ \A i \in 1..Len(ret[1]) :
                CharAt(ret[1], i) \in AsciiAlnum \cup UnicodeAlnum \cup {"_"}

\* C8's cases: "a b" is quoted, "a:7" becomes the bare a_7.
C8_Witness ==
  \/ arg = "a b" /\ ret = <<"\"a b\"">>
  \/ arg = "a:7" /\ ret = <<"a_7">>

(***************************************************************************)
(* Claims checked under SpecRelation                                       *)
(***************************************************************************)
\* the human label of a relation item's type
HumanLabel(item) == Get(EDGE_STYLES, Get(item, "@type").s).label

\* prov:role is present on the item
RolePresent(item) == Has(item, "prov:role")

\* the value of the item's role: the @value of the first element of prov:role
RoleValue(item) == Get(Get(item, "prov:role").l[1].o, "@value")

\* prov:role holds a non-empty list whose first element is an object with @value
RoleUsable(item) ==
  /\ Has(item, "prov:role")
  /\ Get(item, "prov:role").t = "list"
  /\ Get(item, "prov:role").l # <<>>
  /\ Get(item, "prov:role").l[1].t = "obj"
  /\ \E i \in DOMAIN Get(item, "prov:role").l[1].o :
       Get(item, "prov:role").l[1].o[i][1] = "@value"

\* the time field read: 'time' when the item has that key, else 'prov:time'
TimeField(item) == IF Has(item, "time") THEN Get(item, "time") ELSE Get(item, "prov:time")

\* a time or prov:time string containing the separator 'T' is present
TimePresent(item) ==
  \E key \in {"time", "prov:time"} :
    Has(item, key) /\ Get(item, key).t = "str" /\ HasChar(Get(item, key).s, "T")

\* the field read is a string containing 'T'
TimeUsable(item) ==
  /\ Has(item, "time") \/ Has(item, "prov:time")
  /\ TimeField(item).t = "str"
  /\ \E i \in 1..Len(TimeField(item).s) : CharAt(TimeField(item).s, i) = "T"

\* the text of s after its first 'T', up to the next 'T' or '.'
TimePart(s) ==
  LET first == CHOOSE i \in 1..Len(s) :
                 CharAt(s, i) = "T" /\ \A j \in 1..(i - 1) : CharAt(s, j) # "T"
      stops == {j \in (first + 1)..Len(s) : CharAt(s, j) \in {"T", "."}}
      stop == IF stops = {} THEN Len(s) + 1
              ELSE CHOOSE j \in stops : \A k \in stops : j <= k
  IN  SubSeq(s, first + 1, stop - 1)

\* the edge of the item has been made
EdgeMade == ret # <<>> /\ ret[1] # <<>>

\* C9 as stated: the label is the human label followed by the annotations that
\* apply, each joined to it by a newline (written nl: the DOT escape or the
\* character), role first and time second.
C9_AsStatedWith(nl) ==
  EdgeMade =>
    ret[1][1].label =
      HumanLabel(arg)
        \o (IF RolePresent(arg) /\ RoleUsable(arg) THEN nl \o "role:" \o RoleValue(arg) ELSE "")
        \o (IF TimePresent(arg) /\ TimeUsable(arg)
              THEN nl \o "@" \o TimePart(TimeField(arg).s) ELSE "")

C9_AsStated == C9_AsStatedWith("\\n") \/ C9_AsStatedWith("\n")

\* C9, amended: the label is the human label alone when no annotation applies;
\* otherwise it is the human label, the DOT newline escape (backslash, n) and,
\* in parentheses, the annotations that apply joined by ", ", role first and
\* time second.  The role annotation 'role:<value>' applies when prov:role is a
\* non-empty list whose first element is an object with '@value'; the time
\* annotation '@<part>' applies when the value of 'time' (of 'prov:time' when
\* the item has no 'time' key) is a string containing 'T', <part> being its text
\* after the first 'T' up to the next 'T' or '.'.
C9_EdgeLabel ==
  EdgeMade =>
    LET role == IF RoleUsable(arg) THEN "role:" \o RoleValue(arg) ELSE ""
        time == IF TimeUsable(arg) THEN "@" \o TimePart(TimeField(arg).s) ELSE ""
    IN  ret[1][1].label =
          CASE RoleUsable(arg) /\ TimeUsable(arg) ->
                 HumanLabel(arg) \o "\\n(" \o role \o ", " \o time \o ")"
            [] RoleUsable(arg) /\ ~TimeUsable(arg) ->
                 HumanLabel(arg) \o "\\n(" \o role \o ")"
            [] ~RoleUsable(arg) /\ TimeUsable(arg) ->
                 HumanLabel(arg) \o "\\n(" \o time \o ")"
            [] OTHER -> HumanLabel(arg)

\* C9's case: an item with a role and a time has its edge, labelled with both.
C9_Witness ==
  /\ EdgeMade
  /\ RoleUsable(arg) /\ TimeUsable(arg)
  /\ ret[1][1].label = "wasGeneratedBy\\n(role:writer, @03:04:05)"

(***************************************************************************)
(* Claims checked under SpecLabel                                          *)
(***************************************************************************)
LABEL_SOURCES ==
  <<"prov:label", "rdfs:label", "foaf:name", "dcterms:title", "name", "title">>

\* the label sources present on the item, as indices of LABEL_SOURCES
PresentSources(item) == {i \in DOMAIN LABEL_SOURCES : Has(item, LABEL_SOURCES[i])}

\* the least element of a non-empty set of numbers
Least(S) == CHOOSE i \in S : \A j \in S : i <= j

\* the source's value is a non-empty list whose first element carries a label
\* text: an object with '@value' or, for the sources after prov:label, a string
SourceUsable(item, i) ==
  LET v == Get(item, LABEL_SOURCES[i])
  IN  /\ v.t = "list" /\ v.l # <<>>
      /\ \/ v.l[1].t = "obj" /\ Has(v.l[1].o, "@value")
         \/ i > 1 /\ v.l[1].t = "str"

\* the label text of a usable source
SourceText(item, i) ==
  LET first == Get(item, LABEL_SOURCES[i]).l[1]
  IN  IF first.t = "obj" THEN Get(first.o, "@value") ELSE first.s

\* the identifier without its namespace prefix (the text up to the first ':')
Stripped(id) ==
  IF \E i \in 1..Len(id) : CharAt(id, i) = ":"
    THEN LET c == Least({i \in 1..Len(id) : CharAt(id, i) = ":"})
         IN  SubSeq(id, c + 1, Len(id))
    ELSE id

\* the values a label source holds, however it is written: a plain string, or
\* the first element of a list (a string, or the '@value' of an object)
StatedValues(item, i) ==
  LET v == Get(item, LABEL_SOURCES[i])
  IN  IF v.t = "str" THEN {v.s}
      ELSE IF v.t = "list" /\ v.l # <<>> /\ v.l[1].t = "str" THEN {v.l[1].s}
      ELSE IF v.t = "list" /\ v.l # <<>> /\ v.l[1].t = "obj" /\ Has(v.l[1].o, "@value")
        THEN {Get(v.l[1].o, "@value")}
      ELSE {}

\* C10 as stated: the result is the value of the first label source present on
\* the item, in priority order; the stripped @id when none is present; and
\* "anonymous" when the item has no @id either.
C10_AsStated ==
  ret # <<>> =>
    IF PresentSources(arg) # {}
      THEN ret[1] \in StatedValues(arg, Least(PresentSources(arg)))
    ELSE IF Has(arg, "@id") THEN ret[1] = Stripped(Get(arg, "@id").s)
    ELSE ret[1] = "anonymous"

\* C10, amended: the result is the label text of the first label source, in the
\* priority order prov:label, rdfs:label, foaf:name, dcterms:title, name, title,
\* that is present and holds a non-empty list whose first element is an object
\* with '@value' (or, for the sources after prov:label, a plain string); when
\* there is no such source it is the @id with the text up to the first ':'
\* stripped; and when the item has no @id, or an empty one, it is "anonymous".
C10_Label ==
  ret # <<>> =>
    LET usable == {i \in PresentSources(arg) : SourceUsable(arg, i)}
    IN  IF usable # {} THEN ret[1] = SourceText(arg, Least(usable))
        ELSE IF Has(arg, "@id") /\ Get(arg, "@id").s # ""
          THEN ret[1] = Stripped(Get(arg, "@id").s)
        ELSE ret[1] = "anonymous"

\* C10's cases: a usable rdfs:label wins over the later sources; without any
\* source the prefix of ex:a:b is stripped.
C10_Witness ==
  \/ /\ ret = <<"R">>
     /\ ~Has(arg, "prov:label") /\ Has(arg, "dcterms:title") /\ Has(arg, "title")
  \/ /\ ret = <<"a:b">>
     /\ PresentSources(arg) = {}

(***************************************************************************)
(* SpecLd: one convert call on a newly constructed                         *)
(* ProvJsonToJsonldConverter, on documents with bundles and with their     *)
(* top-level keys in every order                                           *)
(***************************************************************************)
\* the most top-level keys of a document drawn for SpecLd
MaxKeys == 3

OtherPrefix == << <<"b", Str("http://bundle.example/")>> >>

\* a bundle with its own prefix map
BundleWithPrefix ==
  << <<"prefix", OtherPrefix>>, <<"entity", << <<"b:e", <<>> >> >> >> >>

\* a bundle without prefix map, its categories in the reverse of registry order
BundleWithoutPrefix ==
  << <<"used", << <<"_:u", << <<"prov:activity", Str("a")>>, <<"prov:entity", Str("e")>> >> >> >> >>,
     <<"entity", << <<"e", <<>> >> >> >> >>

\* a bundle whose prefix map is empty
BundleEmptyPrefix == << <<"prefix", <<>> >>, <<"agent", << <<"ag", <<>> >> >> >> >>

\* the top-level keys a document may hold, each with its value
LdBlocks ==
  { <<"prefix", ProvPrefix>>,
    <<"bundle", << <<"ex:b1", BundleWithPrefix>>, <<"ex:b2", BundleWithoutPrefix>> >> >>,
    <<"bundle", << <<"b3", BundleEmptyPrefix>> >> >>,
    <<"entity", << <<"e2", <<>> >>, <<"e1", << <<"prov:label", Str("one")>> >> >> >> >>,
    <<"activity", ProvActivities>>,
    <<"agent", << <<"ag1", << <<"prov:type", Str("prov:Person")>> >> >> >> >>,
    <<"used", << <<"_:u2", << <<"prov:entity", Str("e1")>> >> >>,
                 <<"u1", << <<"prov:activity", Str("ex:a1")>> >> >> >> >>,
    <<"hadMember", << <<"_:m", << <<"prov:collection", Str("e2")>>,
                                  <<"prov:entity", Str("e1")>> >> >> >> >> }

\* documents of at most MaxKeys keys, pairwise distinct, in every order
LdDocs ==
  { d \in SeqUpTo(LdBlocks, MaxKeys) :
      \A i, j \in DOMAIN d : i # j => d[i][1] # d[j][1] }

\* ProvJsonToJsonldConverter().convert(prov_json)
LdDirect ==
  /\ ldCalls = 0
  /\ \E prov_json \in LdDocs : LdConvertCall(prov_json)
  /\ UNCHANGED <<vizVars, fnVars>>

NextLd == LdDirect

SpecLd == Init /\ [][NextLd]_vars

(***************************************************************************)
(* Claims checked under SpecLd                                             *)
(***************************************************************************)
\* the bundle entries of the input document, in input order
BundlesIn == IF Has(ldIn, "bundle") THEN Get(ldIn, "bundle") ELSE <<>>

\* the @graph and the @context of the document returned
GraphOut == Get(ldOut, "@graph").g

ContextOut == Get(ldOut, "@context").c

\* C11: every bundle entry becomes one prov:Bundle object with its own @context
\* and @graph; the @context of a bundle that declares a prefix map carries that
\* map (followed by the canonical context IRI), and the @context of a bundle
\* that declares none is the top-level context of the document returned.
C11_BundleContext ==
  ldCalls = 1 =>
    \A i \in DOMAIN BundlesIn :
      LET bundle_data == BundlesIn[i][2]
          obj == GraphOut[i]
      IN  /\ Get(obj, "@type") = Str("prov:Bundle")
          /\ Get(obj, "@id") = Str(BundlesIn[i][1])
          /\ Has(obj, "@graph")
          /\ Get(obj, "@context").c =
               IF Has(bundle_data, "prefix") /\ Get(bundle_data, "prefix") # <<>>
                 THEN <<CDict(Get(bundle_data, "prefix")), CIri(PROV_JSONLD_CONTEXT)>>
                 ELSE ContextOut

\* the place of an object's @type in the order of the claim: prov:Bundle first,
\* then the types in TYPE_MAPPINGS order
Rank(type) ==
  IF type = "prov:Bundle" THEN 0
  ELSE CHOOSE k \in DOMAIN TYPE_MAPPINGS : TYPE_MAPPINGS[k][2] = type

\* <<@type, @id>> of every object of a graph, in order
TypeAndId(graph) ==
  [i \in DOMAIN graph |-> <<Get(graph[i], "@type").s, Get(graph[i], "@id").s>>]

\* <<@type, @id>> of the entries of the categories k.. of TYPE_MAPPINGS held by
\* the input document, category by category, in input order inside each
RECURSIVE StatementsFrom(_)
StatementsFrom(k) ==
  IF k > Len(TYPE_MAPPINGS) THEN <<>>
  ELSE (IF Has(ldIn, TYPE_MAPPINGS[k][1])
          THEN LET items == Get(ldIn, TYPE_MAPPINGS[k][1])
               IN  [i \in DOMAIN items |-> <<TYPE_MAPPINGS[k][2], items[i][1]>>]
          ELSE <<>>)
       \o StatementsFrom(k + 1)

\* C13: the @graph returned holds all prov:Bundle objects first, in input
\* order, then the entries of each category in TYPE_MAPPINGS order (entities,
\* activities, agents, then the relation types), in input order inside each
\* category; no object of a later category precedes one of an earlier category,
\* whatever the key order of the input document.
C13_GraphOrder ==
  ldCalls = 1 =>
    /\ TypeAndId(GraphOut)
         = [i \in DOMAIN BundlesIn |-> <<"prov:Bundle", BundlesIn[i][1]>>]
             \o StatementsFrom(1)
    /\ \A i, j \in DOMAIN GraphOut :
         i < j => Rank(Get(GraphOut[i], "@type").s) <= Rank(Get(GraphOut[j], "@type").s)

\* C13's case: a document whose keys are in the reverse of the output order
\* (a relation, then entities, then bundles) has been converted.
C13_Witness ==
  /\ ldCalls = 1
  /\ [i \in DOMAIN ldIn |-> ldIn[i][1]] = <<"used", "entity", "bundle">>
  /\ TypeAndId(GraphOut)
       = << <<"prov:Bundle", "ex:b1">>, <<"prov:Bundle", "ex:b2">>,
            <<"prov:Entity", "e2">>, <<"prov:Entity", "e1">>,
            <<"prov:Usage", "_:u2">>, <<"prov:Usage", "u1">> >>

(***************************************************************************)
(* SpecValue: _convert_value of ProvJsonToJsonldConverter applied to one   *)
(* attribute value                                                         *)
(***************************************************************************)
\* the longest list value drawn for _convert_value
MaxValues == 2

\* the objects a value may be: every subset of the keys '$', 'type', 'lang' and
\* a key of no meaning to the converter
ValueObjects ==
  { Opt("lang", l) \o Opt("note", n) \o Opt("$", v) \o Opt("type", t) :
      l \in {<<>>, <<"en">>}, n \in {<<>>, <<"kept">>},
      v \in {<<>>, <<"text">>}, t \in {<<>>, <<"xsd:string">>} }

ValueElements ==
  {EStr("s"), EStr(""), ENum("5"), ENum("True")} \cup {EObj(o) : o \in ValueObjects}

ValueArgs ==
  {Str("s"), Num("1.5"), None} \cup {Obj(o) : o \in ValueObjects}
    \cup {List(l) : l \in SeqUpTo(ValueElements, MaxValues)}

InitValue ==
  /\ InitViz /\ InitLd
  /\ op = "_convert_value"
  /\ arg \in ValueArgs
  /\ ret = <<>>

\* _convert_value(value); ret holds the list returned
ConvertValue ==
  /\ op = "_convert_value"
  /\ ret = <<>>
  /\ ret' = <<_convert_value(arg)>>
  /\ UNCHANGED <<vizVars, ldVars, op, arg>>

NextValue == ConvertValue

SpecValue == InitValue /\ [][NextValue]_vars

(***************************************************************************)
(* Claims checked under SpecValue                                          *)
(***************************************************************************)
\* the PROV-JSON keys of a value object and the PROV-JSONLD keys they become
VALUE_KEYS == << <<"$", "@value">>, <<"type", "@type">>, <<"lang", "@language">> >>

\* the values given: the elements of a list, or the one value that is no list
ValuesIn ==
  CASE arg.t = "list" -> arg.l
    [] arg.t = "obj" -> <<EObj(arg.o)>>
    [] arg.t = "none" -> <<ENum("None")>>
    [] OTHER -> <<[t |-> arg.t, s |-> arg.s, o |-> <<>>]>>

\* the keys of a dict
KeysOf(d) == {d[i][1] : i \in DOMAIN d}

\* C12: the result is a list with one value object per value given: a scalar s
\* becomes {"@value": str(s)}, and an object carrying any of '$', 'type', 'lang'
\* becomes an object whose keys are exactly the corresponding '@value', '@type',
\* '@language', with the same values.
C12_ValueObjects ==
  ret # <<>> =>
    /\ ret[1].t = "list"
    /\ Len(ret[1].l) = Len(ValuesIn)
    /\ \A i \in DOMAIN ValuesIn :
         LET given == ValuesIn[i]
             made == ret[1].l[i]
             carried == {k \in DOMAIN VALUE_KEYS : Has(given.o, VALUE_KEYS[k][1])}
         IN  IF given.t # "obj"
               THEN made = EObj(<< <<"@value", given.s>> >>)
             ELSE carried # {} =>
               /\ made.t = "obj"
               /\ KeysOf(made.o) = {VALUE_KEYS[k][2] : k \in carried}
               /\ \A k \in carried :
                    Get(made.o, VALUE_KEYS[k][2]) = Get(given.o, VALUE_KEYS[k][1])

(***************************************************************************)
(* Node identifiers, checked under SpecViz                                 *)
(***************************************************************************)
\* the positions in @graph of the node items (Entity, Activity, Agent)
NodeItems ==
  {i \in DOMAIN GraphIn :
     Has(GraphIn[i], "@type") /\ Has(NODE_SHAPES, Get(GraphIn[i], "@type").s)}

\* the identifiers the node items carry are pairwise distinct
GivenIdsDistinct ==
  \A i, j \in NodeItems :
    (i # j /\ Has(GraphIn[i], "@id") /\ Has(GraphIn[j], "@id"))
      => Get(GraphIn[i], "@id") # Get(GraphIn[j], "@id")

\* C14 as stated: when the identifiers carried by the node items of @graph are
\* pairwise distinct, the node set after convert has one entry per node item
\* (every item without @id got an identifier of its own, no item overwrote
\* another), and the DOT text has as many node statements.
C14_OneNodePerItem ==
  (calls = 1 /\ GivenIdsDistinct) =>
    /\ Len(nodes) = Cardinality(NodeItems)
    /\ Len(NodeLines(nodes)) = Cardinality(NodeItems)
====
